---- MODULE Spec2Model ----
(***************************************************************************)
(* A model of @diagonal2/nameof (src/index.ts): the Proxy-based selector   *)
(* capture (proxyMagic, nameof) and the two path accessors (get, set).     *)
(*                                                                         *)
(* JavaScript values are records [t, v]; objects live in a heap (a         *)
(* sequence of property maps) and are referred to by their index, so that  *)
(* set's in-place mutation and the identity of containers are visible.     *)
(* An object inherits from Object.prototype, which `key in object` and     *)
(* `object[key]` both consult, unless it was made with a null prototype.   *)
(***************************************************************************)
EXTENDS Integers, Sequences, FiniteSets, TLC

VARIABLES
    heap,   \* the objects: heap[o] maps the own property names of object o to values
    nullProto,  \* the objects made with a null prototype (Object.create(null))
    arg,    \* the second argument of get/set, the argument of nameof (selectorOrPath)
    val,    \* the third argument of set (value)
    pre,    \* the heap as it was when the last call started
    last,   \* the last call: its name and how it completed
    prev    \* the call before the last one

vars == <<heap, nullProto, arg, val, pre, last, prev>>

(***************************************************************************)
(* Bounds                                                                  *)
(***************************************************************************)
\* longest literal path (string[]) handed to get/set
MaxLen == 3
\* longest chain of property accesses a selector performs
MaxSelLen == 2

(***************************************************************************)
(* JavaScript values                                                       *)
(***************************************************************************)
Undefined == [t |-> "undefined", v |-> 0]
Null == [t |-> "null", v |-> 0]
Num(n) == [t |-> "number", v |-> n]
Str == [t |-> "string", v |-> 0]
Fn(n) == [t |-> "function", v |-> n]
Ref(o) == [t |-> "object", v |-> o]

\* typeof x
TypeOf(x) == IF x.t = "null" THEN "object" ELSE x.t

\* x == null (true of null and undefined only)
IsNullish(x) == x.t \in {"undefined", "null"}

\* the built-in methods the property names of the model can reach
ObjectToString == Fn(1)
StringToString == Fn(2)
NumberToString == Fn(3)
FunctionToString == Fn(4)
StringIterator == Fn(5)

\* property names used by the entities and the paths
Keys == {"a", "b", "toString"}

\* a property key as a Proxy trap or a property access sees it
StringKey(n) == [type |-> "string", name |-> n]
SymbolKey == [type |-> "symbol", name |-> "Symbol.iterator"]
PropertyKeys == {StringKey(n) : n \in Keys} \cup {SymbolKey}

EmptyObject == [k \in {} |-> Undefined]

\* what every ordinary object, an object literal included, inherits
ObjectPrototype == [k \in {"toString"} |-> ObjectToString]

\* the names object o inherits
Inherited(o) == IF o \in nullProto THEN {} ELSE DOMAIN ObjectPrototype

\* Object.prototype.hasOwnProperty.call(object, key) in place of key in object
HasOwnProperty(h, o, key) == key \in DOMAIN h[o]

\* key in object
HasProperty(h, o, key) == key \in DOMAIN h[o] \/ key \in Inherited(o)

\* object[key], read
Get(h, o, key) ==
    IF key \in DOMAIN h[o] THEN h[o][key]
    ELSE IF key \in Inherited(o) THEN ObjectPrototype[key]
    ELSE Undefined

\* object = { [key]: v } in place of object[key] = v: the other properties are lost
PutReplacing(h, o, key, v) == [h EXCEPT ![o] = [k \in {key} |-> v]]

\* object[key] ??= v in place of object[key] = v: a name that holds a value keeps it
PutIfNullish(h, o, key, v) ==
    IF key \in DOMAIN h[o] /\ ~IsNullish(h[o][key]) THEN h
    ELSE [h EXCEPT ![o] = [k \in (DOMAIN h[o]) \cup {key} |-> IF k = key THEN v ELSE h[o][k]]]

\* object[key] = v
Put(h, o, key, v) ==
    [h EXCEPT ![o] = [k \in (DOMAIN h[o]) \cup {key} |-> IF k = key THEN v ELSE h[o][k]]]

(***************************************************************************)
(* Selectors.  A selector t => t.k1.k2...kn is the sequence of its         *)
(* accesses; opt marks an access written with ?. instead of .              *)
(***************************************************************************)
Access(key, opt) == [key |-> key, opt |-> opt]
Accesses == {Access(k, o) : k \in PropertyKeys, o \in BOOLEAN}

RECURSIVE SeqsUpTo(_, _)
SeqsUpTo(S, n) ==
    IF n = 0 THEN {<<>>}
    ELSE LET shorter == SeqsUpTo(S, n - 1)
         IN shorter \cup {Append(s, x) : s \in {q \in shorter : Len(q) = n - 1}, x \in S}

Selectors == SeqsUpTo(Accesses, MaxSelLen)
Paths == SeqsUpTo(Keys, MaxLen)

FunctionArg(s) == [kind |-> "function", sel |-> s, path |-> <<>>]
ArrayArg(p) == [kind |-> "array", sel |-> <<>>, path |-> p]
Args == {FunctionArg(s) : s \in Selectors} \cup {ArrayArg(p) : p \in Paths}

\* value[key] on any value that is not null or undefined (a real property read)
GetV(h, x, key) ==
    IF key.type = "symbol" THEN (IF x.t = "string" THEN StringIterator ELSE Undefined)
    ELSE IF x.t = "object" THEN Get(h, x.v, key.name)
    ELSE IF key.name # "toString" THEN Undefined
    ELSE IF x.t = "string" THEN StringToString
    ELSE IF x.t = "number" THEN NumberToString
    ELSE FunctionToString

\* selector(entity): the selector applied to a real value
RECURSIVE Apply(_, _, _, _)
Apply(h, sel, i, cur) ==
    IF i > Len(sel) THEN [threw |-> FALSE, ret |-> cur]
    ELSE IF IsNullish(cur)
         THEN (IF sel[i].opt THEN [threw |-> FALSE, ret |-> Undefined]
               ELSE [threw |-> TRUE, ret |-> Undefined])
         ELSE Apply(h, sel, i + 1, GetV(h, cur, sel[i].key))

(***************************************************************************)
(* proxyMagic and nameof                                                   *)
(***************************************************************************)
NonStringKeyMessage == "Entity contains a non-string key type."

\* the trap handing the next proxy a copy, [...path, name], and leaving path as it was
proxyMagicCopy(path, name) ==
    IF name.type = "string"
    THEN [threw |-> FALSE, path |-> path]
    ELSE [threw |-> TRUE, path |-> path]

\* the get trap of the Proxy: records the name in the shared path, or throws
proxyMagic(path, name) ==
    IF name.type = "string"
    THEN [threw |-> FALSE, path |-> Append(path, name.name)]
    ELSE [threw |-> TRUE, path |-> path]

\* selector(proxy): every access hits the trap of a proxy, which is never nullish
RECURSIVE selectorOnProxy(_, _, _)
selectorOnProxy(sel, i, path) ==
    IF i > Len(sel) THEN [threw |-> FALSE, path |-> path]
    ELSE LET r == proxyMagic(path, sel[i].key)
         IN IF r.threw THEN r ELSE selectorOnProxy(sel, i + 1, r.path)

\* nameof with the selector call wrapped in try/catch: hands back what was recorded
nameofCatching(sel) ==
    [threw |-> FALSE, msg |-> "", names |-> {selectorOnProxy(sel, 1, <<>>).path}]

\* nameof(selector): names is the set of paths handed back to the caller
nameof(sel) ==
    LET r == selectorOnProxy(sel, 1, <<>>)
    IN IF r.threw
       THEN [threw |-> TRUE, msg |-> NonStringKeyMessage, names |-> {}]
       ELSE [threw |-> FALSE, msg |-> "", names |-> {r.path}]

\* typeof selectorOrPath === "function" ? nameof(selectorOrPath) : selectorOrPath
normalize(selectorOrPath) ==
    IF selectorOrPath.kind = "function" THEN nameof(selectorOrPath.sel)
    ELSE [threw |-> FALSE, msg |-> "", names |-> {selectorOrPath.path}]

ThePath(n) == CHOOSE p \in n.names : TRUE

(***************************************************************************)
(* get                                                                     *)
(***************************************************************************)
Entity == Ref(1)

\* typeof value === "object" && value != null
isObject(value) == TypeOf(value) = "object" /\ ~IsNullish(value)

RECURSIVE getLoop(_, _, _, _)
getLoop(h, path, i, output) ==
    IF i > Len(path) THEN output
    ELSE IF isObject(output)
         THEN LET object == output.v
                  key == path[i]
              IN IF HasProperty(h, object, key)
                 THEN getLoop(h, path, i + 1, Get(h, object, key))
                 ELSE Undefined
         ELSE Undefined

get(h, entity, selectorOrPath) ==
    LET n == normalize(selectorOrPath)
    IN IF n.threw
       THEN [threw |-> TRUE, msg |-> n.msg, ret |-> {}]
       ELSE [threw |-> FALSE, msg |-> "", ret |-> {getLoop(h, ThePath(n), 1, entity)}]

(***************************************************************************)
(* set                                                                     *)
(***************************************************************************)
\* `${path}`: the names joined by commas
RECURSIVE Join(_)
Join(path) ==
    IF Len(path) = 0 THEN ""
    ELSE IF Len(path) = 1 THEN path[1]
    ELSE path[1] \o "," \o Join(Tail(path))

ConflictMessage(path) == "Path [" \o Join(path) \o "] conflicts with the entity structure."

\* value === undefined in place of value == null: null is a conflict
intermediateStepStrict(value) ==
    IF isObject(value) THEN "descend"
    ELSE IF value.t = "undefined" THEN "create"
    ELSE "conflict"

\* no else branch: whatever is not an object is replaced by a new container
intermediateStepLoose(value) ==
    IF isObject(value) THEN "descend" ELSE "create"

\* what set does with the value an intermediate key holds: the if / else if / else
intermediateStep(value) ==
    IF isObject(value) THEN "descend"
    ELSE IF IsNullish(value) THEN "create"
    ELSE "conflict"

RECURSIVE setLoop(_, _, _, _, _)
setLoop(h, path, i, object, value) ==
    IF i > Len(path) THEN [threw |-> FALSE, msg |-> "", heap |-> h]
    ELSE LET key == path[i]
         IN IF i # Len(path)
            THEN LET value_1 == Get(h, object, key)
                     step == intermediateStep(value_1)
                 IN IF step = "descend"
                    THEN setLoop(h, path, i + 1, value_1.v, value)
                    ELSE IF step = "create"
                    THEN LET newValue == Len(h) + 1
                         IN setLoop(Put(Append(h, EmptyObject), object, key, Ref(newValue)),
                                    path, i + 1, newValue, value)
                    ELSE [threw |-> TRUE, msg |-> ConflictMessage(path), heap |-> h]
            ELSE setLoop(Put(h, object, key, value), path, i + 1, object, value)

\* set working on a copy and committing only when the walk ends: a conflict rolls back
setRollingBack(h, entity, selectorOrPath, value) ==
    LET n == normalize(selectorOrPath)
    IN IF n.threw
       THEN [threw |-> TRUE, msg |-> n.msg, heap |-> h]
       ELSE LET r == setLoop(h, ThePath(n), 1, entity.v, value)
            IN IF r.threw THEN [r EXCEPT !.heap = h] ELSE r

\* set with a guard in front: a path of no names is rejected
setRejectingEmpty(h, entity, selectorOrPath, value) ==
    LET n == normalize(selectorOrPath)
    IN IF n.threw
       THEN [threw |-> TRUE, msg |-> n.msg, heap |-> h]
       ELSE IF Len(ThePath(n)) = 0
       THEN [threw |-> TRUE, msg |-> "Path is empty.", heap |-> h]
       ELSE setLoop(h, ThePath(n), 1, entity.v, value)

set(h, entity, selectorOrPath, value) ==
    LET n == normalize(selectorOrPath)
    IN IF n.threw
       THEN [threw |-> TRUE, msg |-> n.msg, heap |-> h]
       ELSE setLoop(h, ThePath(n), 1, entity.v, value)

(***************************************************************************)
(* The entities the calls start from (object 1 is the entity), taken from  *)
(* the examples of the documentation, and the values written.              *)
(***************************************************************************)
InitEntities ==
    { <<EmptyObject>>,
      <<[a |-> Undefined]>>,
      <<[a |-> Null]>>,
      <<[a |-> Ref(2)], EmptyObject>>,
      <<[a |-> Num(3)]>>,
      <<[b |-> Num(2)]>>,
      <<[a |-> Str]>>,
      <<[a |-> Ref(2), b |-> Num(2)], [b |-> Num(1)]>>,
      <<[a |-> Ref(2)], [a |-> Null, b |-> Str]>>,
      <<[a |-> Ref(2)], [b |-> Ref(3)], [a |-> Num(1)]>> }

\* an object of the caller's, { b: 1 }, that is not part of the entity
ValueObject == [b |-> Num(1)]

SetValues(h) == {Undefined, Null, Num(1), Ref(Len(h))}

NoCall == [op |-> "none", threw |-> FALSE, msg |-> "", ret |-> {}, names |-> {}]

Init ==
    /\ \E e \in InitEntities :
          /\ heap = Append(e, ValueObject)
          /\ nullProto \in {{}, 1..Len(e)}
    /\ arg \in Args
    /\ val \in SetValues(heap)
    /\ pre = heap
    /\ last = NoCall
    /\ prev = NoCall

\* nameof(selector)
Nameof ==
    /\ arg.kind = "function"
    /\ LET r == nameof(arg.sel)
       IN last' = [op |-> "nameof", threw |-> r.threw, msg |-> r.msg,
                   ret |-> {}, names |-> r.names]
    /\ pre' = heap
    /\ prev' = last
    /\ UNCHANGED <<heap, nullProto, arg, val>>

\* get(entity, selectorOrPath)
GetCall ==
    /\ LET r == get(heap, Entity, arg)
       IN last' = [op |-> "get", threw |-> r.threw, msg |-> r.msg,
                   ret |-> r.ret, names |-> {}]
    /\ pre' = heap
    /\ prev' = last
    /\ UNCHANGED <<heap, nullProto, arg, val>>

\* set(entity, selectorOrPath, value)
SetCall ==
    /\ LET r == set(heap, Entity, arg, val)
       IN /\ heap' = r.heap
          /\ last' = [op |-> "set", threw |-> r.threw, msg |-> r.msg,
                      ret |-> IF r.threw THEN {} ELSE {Undefined}, names |-> {}]
    /\ pre' = heap
    /\ prev' = last
    /\ UNCHANGED <<nullProto, arg, val>>

Next == Nameof \/ GetCall \/ SetCall

Spec == Init /\ [][Next]_vars

(***************************************************************************)
(* What the claims speak about                                             *)
(***************************************************************************)
\* the call's second argument normalised to a path (when nameof did not throw)
Normalized == ~normalize(arg).threw
CallPath == ThePath(normalize(arg))

\* neither object-like nor nullish: a scalar or a function
IsScalar(x) == ~IsNullish(x) /\ TypeOf(x) # "object"

\* what a fresh, empty container holds under a name
FreshHolds(key) == IF key \in DOMAIN ObjectPrototype THEN ObjectPrototype[key] ELSE Undefined

\* The walk of set over the intermediate names of p, told from the heap h the
\* call started with: the container reached before name i is object 1, an
\* existing object, a container created on the way ("fresh"), or there is
\* none because a conflict came earlier.
RECURSIVE ContainerAt(_, _, _)
HeldAt(h, p, i) ==
    LET c == ContainerAt(h, p, i)
    IN IF c.kind = "existing" THEN Get(h, c.o, p[i]) ELSE FreshHolds(p[i])

ContainerAt(h, p, i) ==
    IF i = 1 THEN [kind |-> "existing", o |-> 1]
    ELSE LET c == ContainerAt(h, p, i - 1)
         IN IF c.kind = "none" THEN c
            ELSE LET x == HeldAt(h, p, i - 1)
                 IN IF IsNullish(x) THEN [kind |-> "fresh", o |-> 0]
                    ELSE IF IsScalar(x) THEN [kind |-> "none", o |-> 0]
                    ELSE [kind |-> "existing", o |-> x.v]

\* intermediate name i is reached and holds a value that blocks the walk
ConflictAt(h, p, i) == ContainerAt(h, p, i).kind # "none" /\ IsScalar(HeldAt(h, p, i))
Conflicts(h, p) == \E i \in 1..(Len(p) - 1) : ConflictAt(h, p, i)

\* the objects met when following the names p[1..i] from the entity in heap h
\* (0 when the chain breaks)
RECURSIVE Follow(_, _, _)
Follow(h, p, i) ==
    IF i = 0 THEN 1
    ELSE LET o == Follow(h, p, i - 1)
         IN IF o = 0 THEN 0
            ELSE LET x == Get(h, o, p[i]) IN IF isObject(x) THEN x.v ELSE 0

(***************************************************************************)
(* C1                                                                      *)
(***************************************************************************)
\* C1 (as stated): for every entity, every path including the empty one and
\* every value, a get that follows a set that returned reads the value written.
C1_RoundTripEveryPath ==
    (last.op = "get" /\ prev.op = "set" /\ ~prev.threw) => last.ret = {val}

\* C1 (amended): the round trip holds for every non-empty path; with the empty
\* path set writes nothing and get returns the entity itself.
C1_RoundTrip ==
    (last.op = "get" /\ prev.op = "set" /\ ~prev.threw)
        => IF Len(CallPath) > 0 THEN last.ret = {val} ELSE last.ret = {Entity}

C1_Witness ==
    /\ last.op = "get" /\ prev.op = "set" /\ ~prev.threw
    /\ Len(CallPath) >= 2
    /\ val = Num(1)
    /\ last.ret = {val}

(***************************************************************************)
(* C2                                                                      *)
(***************************************************************************)
\* C2: get never throws: with a literal path or with a selector, one that
\* accesses a symbolic key included, it returns a value or undefined.
C2_GetNeverThrows ==
    last.op = "get" => (~last.threw /\ Cardinality(last.ret) = 1)

(***************************************************************************)
(* C3                                                                      *)
(***************************************************************************)
\* C3: set throws the structural-conflict TypeError, whose message carries the
\* whole path, exactly when an intermediate name holds a value that is neither
\* object-like nor nullish; the last name is not checked and is assigned
\* whatever it held; set({a: 3}, ["a","b"], 1) throws.
C3_ConflictExactly ==
    /\ (last.op = "set" /\ ~Normalized) => (last.threw /\ last.msg = NonStringKeyMessage)
    /\ (last.op = "set" /\ Normalized) =>
        LET p == CallPath
        IN /\ last.threw <=> Conflicts(pre, p)
           /\ last.threw => last.msg = "Path [" \o Join(p) \o "] conflicts with the entity structure."
           /\ (~last.threw /\ Len(p) > 0) =>
                 LET c == Follow(heap, p, Len(p) - 1)
                 IN c # 0 /\ p[Len(p)] \in DOMAIN heap[c] /\ heap[c][p[Len(p)]] = val
           /\ (pre[1] = [a |-> Num(3)] /\ arg = ArrayArg(<<"a", "b">>))
                 => (last.threw /\ last.msg = "Path [a,b] conflicts with the entity structure.")

C3_Witness ==
    /\ last.op = "set" /\ last.threw
    /\ pre[1] = [a |-> Num(3)] /\ arg = ArrayArg(<<"a", "b">>) /\ val = Num(1)
    /\ last.msg = "Path [a,b] conflicts with the entity structure."

\* a last name that held a scalar is overwritten without complaint
C3_WitnessLeaf ==
    /\ last.op = "set" /\ ~last.threw
    /\ pre[1] = [a |-> Num(3)] /\ arg = ArrayArg(<<"a">>) /\ val = Num(1)
    /\ heap[1] = [a |-> Num(1)]

(***************************************************************************)
(* C4                                                                      *)
(***************************************************************************)
\* C4: on a path of two or more names, every intermediate name that the walk
\* reaches and that is missing or holds null or undefined gets a newly
\* created empty container, into which set descends; set(e, ["a","b"], 1)
\* turns {}, {a: undefined}, {a: null} and {a: {}} into {a: {b: 1}}.
C4_Synthesizes ==
    (last.op = "set" /\ Normalized) =>
        LET p == CallPath
        IN /\ \A i \in 1..(Len(p) - 1) :
                (ContainerAt(pre, p, i).kind # "none" /\ IsNullish(HeldAt(pre, p, i))) =>
                    LET c == Follow(heap, p, i - 1)
                        o == Follow(heap, p, i)
                    IN /\ c # 0 /\ o > Len(pre)
                       /\ p[i] \in DOMAIN heap[c] /\ heap[c][p[i]] = Ref(o)
                       /\ DOMAIN heap[o] \subseteq {p[i + 1]}
           /\ ( /\ CallPath = <<"a", "b">> /\ val = Num(1)
                /\ \/ pre[1] \in {EmptyObject, [a |-> Undefined], [a |-> Null]}
                   \/ pre[1] = [a |-> Ref(2)] /\ pre[2] = EmptyObject )
                => /\ ~last.threw
                   /\ DOMAIN heap[1] = {"a"} /\ heap[1]["a"].t = "object"
                   /\ heap[heap[1]["a"].v] = [b |-> Num(1)]

C4_Witness ==
    /\ last.op = "set" /\ ~last.threw
    /\ pre[1] = [a |-> Null] /\ arg = ArrayArg(<<"a", "b">>) /\ val = Num(1)
    /\ heap[1] = [a |-> Ref(3)] /\ heap[3] = [b |-> Num(1)]

(***************************************************************************)
(* C5                                                                      *)
(***************************************************************************)
\* an own property as a set: empty when the object does not own the name
Own(h, o, k) == IF k \in DOMAIN h[o] THEN {h[o][k]} ELSE {}

\* C5: set changes only the properties named by the path in the containers
\* it walks: no property is deleted, every other property keeps its value,
\* and an intermediate name that holds a non-null object keeps that object;
\* set({b: 2}, ["a","b"], 1) yields {a: {b: 1}, b: 2}.
C5_Frame ==
    last.op = "set" =>
        /\ Len(heap) >= Len(pre)
        /\ ~Normalized => heap = pre
        /\ Normalized =>
            LET p == CallPath
            IN /\ \A o \in 1..Len(pre) :
                    /\ DOMAIN pre[o] \subseteq DOMAIN heap[o]
                    /\ \A k \in Keys :
                         Own(heap, o, k) # Own(pre, o, k) =>
                            \E i \in 1..Len(p) :
                               /\ k = p[i]
                               /\ ContainerAt(pre, p, i) = [kind |-> "existing", o |-> o]
                               /\ i < Len(p) => ~isObject(HeldAt(pre, p, i))
               /\ (pre[1] = [b |-> Num(2)] /\ p = <<"a", "b">> /\ val = Num(1))
                    => /\ DOMAIN heap[1] = {"a", "b"} /\ heap[1]["b"] = Num(2)
                       /\ heap[1]["a"].t = "object"
                       /\ heap[heap[1]["a"].v] = [b |-> Num(1)]

C5_Witness ==
    /\ last.op = "set" /\ ~last.threw
    /\ pre[1] = [b |-> Num(2)] /\ arg = ArrayArg(<<"a", "b">>) /\ val = Num(1)
    /\ heap[1] = [a |-> Ref(3), b |-> Num(2)] /\ heap[3] = [b |-> Num(1)]

\* an intermediate object with a sibling is extended, not replaced
C5_WitnessDescend ==
    /\ last.op = "set" /\ ~last.threw
    /\ pre[1] = [a |-> Ref(2), b |-> Num(2)] /\ pre[2] = [b |-> Num(1)]
    /\ arg = ArrayArg(<<"a", "a">>) /\ val = Null
    /\ heap[1] = pre[1] /\ heap[2] = [a |-> Null, b |-> Num(1)]

(***************************************************************************)
(* C6                                                                      *)
(***************************************************************************)
AllStringKeys(sel) == \A i \in 1..Len(sel) : sel[i].key.type = "string"

\* C6: for a selector that makes k string-named accesses, with . or ?. at
\* each, nameof returns exactly those k names in the order of the accesses;
\* t => t.a?.b yields ["a","b"].
C6_NameofFaithful ==
    (last.op = "nameof" /\ AllStringKeys(arg.sel)) =>
        /\ ~last.threw
        /\ \E path \in last.names :
              /\ last.names = {path}
              /\ Len(path) = Len(arg.sel)
              /\ \A i \in 1..Len(path) : path[i] = arg.sel[i].key.name
        /\ arg.sel = <<Access(StringKey("a"), FALSE), Access(StringKey("b"), TRUE)>>
              => last.names = {<<"a", "b">>}

C6_Witness ==
    /\ last.op = "nameof"
    /\ arg.sel = <<Access(StringKey("a"), FALSE), Access(StringKey("b"), TRUE)>>
    /\ last.names = {<<"a", "b">>}

(***************************************************************************)
(* C7                                                                      *)
(***************************************************************************)
\* C7: when the selector makes an access with a non-string key, nameof throws
\* the TypeError of the trap and hands no path back, not even the names
\* recorded before that access.
C7_NonStringKeyThrows ==
    (last.op = "nameof" /\ ~AllStringKeys(arg.sel)) =>
        /\ last.threw
        /\ last.msg = "Entity contains a non-string key type."
        /\ last.names = {}

C7_Witness ==
    /\ last.op = "nameof" /\ last.threw /\ last.names = {}
    /\ arg.sel = <<Access(StringKey("a"), FALSE), Access(SymbolKey, FALSE)>>

(***************************************************************************)
(* C8                                                                      *)
(***************************************************************************)
\* C8: for a selector that is a chain of named property accesses and that
\* evaluates on the entity without throwing, get(entity, selector) is
\* selector(entity), chains through a primitive or a function included.
C8_GetIsSelectorApplied ==
    ( /\ last.op = "get" /\ arg.kind = "function" /\ AllStringKeys(arg.sel)
      /\ ~Apply(pre, arg.sel, 1, Entity).threw )
        => last.ret = {Apply(pre, arg.sel, 1, Entity).ret}

(***************************************************************************)
(* C9                                                                      *)
(***************************************************************************)
\* The traversal as the claim tells it: after i names, either ABSENT or the
\* current value.  inherited says whether a property the object inherits
\* counts as one it has.
RECURSIVE Traversal(_, _, _, _)
Traversal(h, p, i, inherited) ==
    IF i = 0 THEN [absent |-> FALSE, current |-> Entity]
    ELSE LET t == Traversal(h, p, i - 1, inherited)
         IN IF t.absent THEN t
            ELSE IF t.current.t # "object" THEN [absent |-> TRUE, current |-> Undefined]
            ELSE IF p[i] \in DOMAIN h[t.current.v]
                 THEN [absent |-> FALSE, current |-> h[t.current.v][p[i]]]
            ELSE IF inherited /\ p[i] \in Inherited(t.current.v)
                 THEN [absent |-> FALSE, current |-> ObjectPrototype[p[i]]]
            ELSE [absent |-> TRUE, current |-> Undefined]

Reported(h, p, inherited) ==
    LET t == Traversal(h, p, Len(p), inherited)
    IN IF t.absent THEN Undefined ELSE t.current

\* C9 (as stated): get reports ABSENT as soon as the current value is not a
\* non-null object or does not OWN the next name, and otherwise moves on to
\* the property's value; after the last name it reports the current value.
C9_GetOwnTraversal ==
    (last.op = "get" /\ Normalized) => last.ret = {Reported(pre, CallPath, FALSE)}

\* C9 (amended): the same traversal, where ABSENT is reported when the
\* current value does not HAVE the next name, as an own or as an inherited
\* property (key in object); get(e, []) is e and get({}, ["a","b"]) is ABSENT.
C9_GetTraversal ==
    (last.op = "get" /\ Normalized) =>
        /\ last.ret = {Reported(pre, CallPath, TRUE)}
        /\ CallPath = <<>> => last.ret = {Entity}
        /\ (pre[1] = EmptyObject /\ CallPath = <<"a", "b">>) => last.ret = {Undefined}

C9_Witness ==
    /\ last.op = "get" /\ arg = ArrayArg(<<"a", "toString">>)
    /\ pre[1] = [a |-> Ref(2)] /\ pre[2] = EmptyObject
    /\ last.ret = {ObjectToString}

\* a traversal that goes through own properties only, and one that stops early
C9_WitnessOwn ==
    /\ last.op = "get" /\ arg = ArrayArg(<<"a", "b", "a">>)
    /\ pre[1] = [a |-> Ref(2)] /\ pre[2] = [b |-> Ref(3)] /\ pre[3] = [a |-> Num(1)]
    /\ last.ret = {Num(1)}

(***************************************************************************)
(* C10                                                                     *)
(***************************************************************************)
\* C10: when set throws the structural-conflict error at an intermediate
\* name, every container it created for the names before that one is still
\* in the entity afterwards.
C10_NoRollback ==
    (last.op = "set" /\ Normalized /\ last.threw) =>
        LET p == CallPath
        IN \A j \in 1..(Len(p) - 1) : ConflictAt(pre, p, j) =>
              \A i \in 1..(j - 1) : IsNullish(HeldAt(pre, p, i)) =>
                 LET c == Follow(heap, p, i - 1)
                     o == Follow(heap, p, i)
                 IN /\ c # 0 /\ o > Len(pre)
                    /\ p[i] \in DOMAIN heap[c] /\ heap[c][p[i]] = Ref(o)

C10_Witness ==
    /\ last.op = "set" /\ last.threw
    /\ pre[1] = EmptyObject /\ arg = ArrayArg(<<"a", "toString", "b">>)
    /\ last.msg = "Path [a,toString,b] conflicts with the entity structure."
    /\ heap[1] = [a |-> Ref(3)] /\ heap[3] = EmptyObject

(***************************************************************************)
(* C11                                                                     *)
(***************************************************************************)
\* the objects of heap h that the entity is made of
RECURSIVE Reach(_, _)
Reach(h, S) ==
    LET held(o) == {h[o][k].v : k \in {x \in DOMAIN h[o] : h[o][x].t = "object"}}
        next == S \cup UNION {held(o) : o \in S}
    IN IF next = S THEN S ELSE Reach(h, next)

\* every container of the entity exposes its own properties only
OwnPropertiesOnly(h) == Reach(h, {1}) \subseteq nullProto

\* set threw the structural-conflict error
ThrewConflict == last.op = "set" /\ Normalized /\ last.threw

\* no name after the first is one that a container created by set inherits
NoInheritedName(p) == \A i \in 2..Len(p) : p[i] \notin DOMAIN ObjectPrototype

\* C11 (as stated): when the containers of the entity expose only their own
\* properties, a conflict is found before set has created any container, so
\* an entity on which set threw the structural-conflict error is as it was.
C11_ConflictLeavesEntity ==
    (ThrewConflict /\ OwnPropertiesOnly(pre)) => heap = pre

\* C11 (amended): the same, for paths none of whose names after the first is
\* inherited by the containers set creates (object literals, which inherit
\* from Object.prototype): then set throws exactly when a container the
\* entity already had holds a scalar under an intermediate name, every
\* earlier name holding an object, and the entity is as it was.  For other
\* paths the conflict may lie in a created container, and what was created
\* before it stays.
C11_ConflictBeforeCreation ==
    (last.op = "set" /\ Normalized /\ OwnPropertiesOnly(pre)) =>
        LET p == CallPath
            early == \E j \in 1..(Len(p) - 1) :
                        /\ IsScalar(HeldAt(pre, p, j))
                        /\ ContainerAt(pre, p, j).kind = "existing"
                        /\ \A i \in 1..(j - 1) : isObject(HeldAt(pre, p, i))
        IN /\ NoInheritedName(p) => (last.threw <=> early)
           /\ (last.threw /\ NoInheritedName(p)) => heap = pre
           /\ (last.threw /\ heap # pre) =>
                 \E j \in 2..(Len(p) - 1) :
                    /\ ConflictAt(pre, p, j)
                    /\ ContainerAt(pre, p, j).kind = "fresh"
                    /\ p[j] \in DOMAIN ObjectPrototype

C11_Witness ==
    /\ ThrewConflict /\ OwnPropertiesOnly(pre)
    /\ pre[1] = [a |-> Ref(2)] /\ pre[2] = [a |-> Null, b |-> Str]
    /\ arg = ArrayArg(<<"a", "b", "a">>)
    /\ heap = pre

(***************************************************************************)
(* C12                                                                     *)
(***************************************************************************)
\* C12: set with a path of no names, or with a selector that makes no access,
\* returns without throwing and leaves the entity as it was: the value is
\* stored nowhere.
C12_EmptyPathNoOp ==
    (last.op = "set" /\ Normalized /\ Len(CallPath) = 0) =>
        /\ ~last.threw
        /\ last.ret = {Undefined}
        /\ heap = pre

C12_Witness ==
    /\ last.op = "set" /\ ~last.threw
    /\ arg = ArrayArg(<<>>) /\ val = Num(1)
    /\ pre[1] = [b |-> Num(2)]
    /\ heap = pre

\* the same with a selector that makes no access, t => t
C12_WitnessSelector ==
    /\ last.op = "set" /\ ~last.threw
    /\ arg = FunctionArg(<<>>) /\ val = Num(1)
    /\ heap = pre

====
